---- MODULE Spec2Model ----
(***************************************************************************)
(* Model of scripts/build-blocksuite.ts (the build / release command) and  *)
(* of the file-name derivation shared with the comparator script.          *)
(*                                                                         *)
(* One invocation of the command is a run.  Every awaited external         *)
(* operation (git, yarn, the file system, a call of the hosting API) is    *)
(* one action; an operation that throws ends the run with exit code 1.     *)
(* Text values whose characters the code inspects (package names, file     *)
(* names, paths) are sequences of one-character strings.                   *)
(*                                                                         *)
(* The hosting API is modelled by its documented behaviour: asset names    *)
(* are unique inside a release (an upload onto a taken name is answered    *)
(* 422), deleting an unknown asset is answered 404, and any call may fail  *)
(* with a server error or without a status (network).                      *)
(***************************************************************************)
EXTENDS Integers, Sequences, FiniteSets, TLC

VARIABLES
  repoWorkspaces,  \* names printed by `yarn workspaces list --json` in the checkout
  opts,            \* the options of the invocation
  runs,            \* number of invocations started so far
  pc,              \* position of the current run
  steps,           \* external operations of the current run, in order, with outcome
  calls,           \* hosting-API requests of the current run, in order, with status
  built,           \* workspaces the build command of the current run has built
  targets,         \* packBlocksuite: the workspaces to pack
  files,           \* packBlocksuite: the produced paths (Archive Result)
  idx,             \* loop index of the pack loop, then of the upload loop
  packDir,         \* entries of the output directory
  overrides,       \* content of blocksuite-package-overrides.json (name -> reference)
  releases,        \* remote: releases of the target repository
  assets,          \* remote: release assets
  nextId,          \* remote: next identifier the hosting service hands out
  releaseId,       \* id of the release resolved by ensureRelease (0: none)
  existingNames,   \* uploadReleaseAssets: Map asset name -> asset id
  start,           \* snapshot of the shared resources when the run started
  finalNames,      \* asset-name set of the release after each completed release run
  finalDirs,       \* output-directory entries before and after each completed run
  naming,          \* file-name derivation: the package name and the derived paths
  env,             \* process.env: GITHUB_ACTIONS, GITHUB_REPOSITORY, GITHUB_TOKEN
  diag,            \* the error the current run was rejected with ("": none)
  clone,           \* the destination of the clone and the work tree around it
  manifests        \* the package.json files of the @blocksuite/* workspaces

vars == << repoWorkspaces, opts, runs, pc, steps, calls, built, targets, files,
           idx, packDir, overrides, releases, assets, nextId, releaseId,
           existingNames, start, finalNames, finalDirs, naming, env, diag, clone,
           manifests >>

----------------------------------------------------------------------------
(* Bounds *)

MaxRuns == 2

\* longest scope and longest name of the package names of SpecNames
MaxPartLen == 2

----------------------------------------------------------------------------
(* Text helpers *)

Undef == "undefined"

IndexOf(s, c) ==
  IF \E i \in 1..Len(s) : s[i] = c
    THEN CHOOSE i \in 1..Len(s) : s[i] = c /\ \A j \in 1..(i - 1) : s[j] # c
    ELSE 0

\* String.prototype.replace with a string pattern: the first occurrence only.
Replace(s, c, r) ==
  LET i == IndexOf(s, c)
  IN  IF i = 0 THEN s ELSE SubSeq(s, 1, i - 1) \o r \o SubSeq(s, i + 1, Len(s))

StartsWith(s, p) == Len(s) >= Len(p) /\ SubSeq(s, 1, Len(p)) = p

IsAbsolute(p) == Len(p) > 0 /\ p[1] = "/"

Join(a, b) == a \o <<"/">> \o b

Resolve(root, p) == IF IsAbsolute(p) THEN p ELSE Join(root, p)

\* file.split(/[/\\]/).pop()
LastSegment(p) ==
  LET seps == {i \in 1..Len(p) : p[i] \in {"/", "\\"}}
      last == IF seps = {} THEN 0 ELSE CHOOSE i \in seps : \A j \in seps : j <= i
  IN  SubSeq(p, last + 1, Len(p))

Range(s) == {s[i] : i \in 1..Len(s)}

\* String.prototype.includes with a one-character pattern
Includes(s, c) == IndexOf(s, c) # 0

\* String.prototype.split with a one-character separator
RECURSIVE Split(_, _)
Split(s, c) ==
  LET i == IndexOf(s, c)
  IN  IF i = 0 THEN <<s>>
      ELSE <<SubSeq(s, 1, i - 1)>> \o Split(SubSeq(s, i + 1, Len(s)), c)

----------------------------------------------------------------------------
(* Program constants and the inputs of the model *)

REPO_ROOT == <<"/", "r">>

BlocksuitePrefix == <<"@", "b", "l", "o", "c", "k", "s", "u", "i", "t", "e", "/">>

WsA == BlocksuitePrefix \o <<"a">>
WsB == BlocksuitePrefix \o <<"b">>
WsE2E == BlocksuitePrefix \o <<"e", "2", "e">>
WsPlayground == BlocksuitePrefix \o <<"p", "g">>
WsAffine == <<"@", "a", "f", "f", "i", "n", "e", "/", "w", "e", "b">>
WsMissing == BlocksuitePrefix \o <<"x">>

DEFAULT_EXCLUDED_WORKSPACES == <<WsE2E, WsPlayground>>

TgzExt == <<".", "t", "g", "z">>

\* The checkouts: what `yarn workspaces list` prints in them.
WorkspaceLists ==
  { <<WsAffine>>, <<WsAffine, WsA>>, <<WsA, WsB, WsAffine>>, <<WsA, WsE2E, WsB>> }

\* --packages: absent, one name, a name twice, two names, an unknown name.
PackageArgs == { <<>>, <<WsA>>, <<WsA, WsA>>, <<WsB, WsA>>, <<WsMissing>> }

\* --pack-dir: a directory of its own, not REPO_ROOT/dist where generateOverrides
\* writes blocksuite-package-overrides.json
PackDirArg == <<"o", "u", "t">>

\* --pack-dir of the compare script, the base directory of its files
CompareDirArg == <<"c", "m", "p">>

Version == "0.25.5"

\* the tag the README names for that version
ReadmeTag == "blocksuite@0.25.5"

DEFAULT_SOURCE_REPO == "https://github.com/toeverything/AFFiNE.git"

\* an option or environment variable that is not set, where the value is a text
\* whose characters the code inspects
Absent == <<Undef>>

OwnerRepo == <<"o", "/", "r">>

\* --repository: not given, owner/repo, no separator, no repository part, no owner
\* part, one part too many
RepositoryArgs ==
  { Absent, OwnerRepo, <<"o", "r">>, <<"o", "/">>, <<"/", "r">>,
    <<"o", "/", "r", "/", "x">> }

\* --token: not given, empty, given
TokenArgs == {Undef, "", "t"}

\* build-blocksuite [options]
BuildOptionSet ==
  [ cmd : {"build"}, packages : PackageArgs, skipInstall : BOOLEAN,
    clean : BOOLEAN, upload : BOOLEAN, version : {Version}, tag : {Undef},
    excludeWorkspaces : {DEFAULT_EXCLUDED_WORKSPACES}, ref : {"main"},
    sourceRepo : {DEFAULT_SOURCE_REPO}, packDir : {PackDirArg},
    repository : {Absent}, token : {Undef}, packageName : {<<>>} ]

\* --tag: absent, or a tag of its own
TagArgs == {Undef, "custom"}

\* build-blocksuite release --version V [options] without --skip-install, the
\* repository taken from the environment; --clean is declared with default true
ReleaseOptionSet ==
  [ cmd : {"release"}, packages : PackageArgs, skipInstall : {FALSE},
    clean : {TRUE}, upload : {FALSE}, version : {Version}, tag : TagArgs,
    excludeWorkspaces : {DEFAULT_EXCLUDED_WORKSPACES}, ref : {Undef},
    sourceRepo : {DEFAULT_SOURCE_REPO}, packDir : {PackDirArg},
    repository : {Absent}, token : {"t"}, packageName : {<<>>} ]

\* build-blocksuite release with --ref, and with every --repository and --token
ReleaseConfigSet ==
  [ cmd : {"release"}, packages : {<<WsA>>}, skipInstall : {TRUE},
    clean : {TRUE}, upload : {FALSE}, version : {Version}, tag : {Undef},
    excludeWorkspaces : {DEFAULT_EXCLUDED_WORKSPACES}, ref : {"dev"},
    sourceRepo : {DEFAULT_SOURCE_REPO}, packDir : {PackDirArg},
    repository : RepositoryArgs, token : TokenArgs, packageName : {<<>>} ]

\* compare-blocksuite --package-name <name> [--skip-install]
CompareOptionSet ==
  [ cmd : {"compare"}, packages : {<<>>}, skipInstall : BOOLEAN,
    clean : {FALSE}, upload : {FALSE}, version : {Version}, tag : {Undef},
    excludeWorkspaces : {DEFAULT_EXCLUDED_WORKSPACES}, ref : {Undef},
    sourceRepo : {DEFAULT_SOURCE_REPO}, packDir : {CompareDirArg},
    repository : {Absent}, token : {Undef}, packageName : {WsA, WsMissing} ]

NoOptions ==
  [ cmd |-> "none", packages |-> <<>>, skipInstall |-> FALSE, clean |-> FALSE,
    upload |-> FALSE, version |-> Version, tag |-> Undef,
    excludeWorkspaces |-> DEFAULT_EXCLUDED_WORKSPACES, ref |-> Undef,
    sourceRepo |-> DEFAULT_SOURCE_REPO, packDir |-> PackDirArg,
    repository |-> Absent, token |-> Undef, packageName |-> <<>> ]

Environment(actions, repository, token) ==
  [ GITHUB_ACTIONS |-> actions, GITHUB_REPOSITORY |-> repository,
    GITHUB_TOKEN |-> token ]

NoEnvironment == Environment(Undef, Absent, Undef)

\* the environments a command line is run in: the build command inside GitHub
\* Actions, and with --upload and --skip-install also outside and with the marker
\* at another value; the release command with the repository in the environment,
\* and with --ref in an environment that sets nothing and in one that sets the
\* repository and the token; the comparator inside GitHub Actions
EnvironmentsOf(o) ==
  CASE o.cmd = "build" /\ o.upload /\ o.skipInstall ->
         { Environment(a, Absent, Undef) : a \in {Undef, "true", "1"} }
    [] o.cmd = "build" /\ ~(o.upload /\ o.skipInstall) ->
         { Environment("true", Absent, Undef) }
    [] o.cmd = "release" /\ o.ref = Undef -> { Environment("true", OwnerRepo, Undef) }
    [] o.cmd = "release" /\ o.ref # Undef ->
         { Environment(Undef, Absent, Undef), Environment("true", OwnerRepo, "t") }
    [] o.cmd = "compare" -> { Environment("true", OwnerRepo, "t") }

----------------------------------------------------------------------------
(* Pure functions of the scripts *)

\* packBlocksuite: `${ws.name.replace("@", "").replace("/", "-")}.tgz`
PackFilename(name) == Replace(Replace(name, "@", <<>>), "/", <<"-">>) \o TgzExt

\* generateOverrides: the same expression, written a second time in the script
OverrideFilename(name) == Replace(Replace(name, "@", <<>>), "/", <<"-">>) \o TgzExt

\* mutant: the path separator becomes an underscore
normalizeBaseNameUnderscore(packageName) ==
  Replace(Replace(packageName, "@", <<>>), "/", <<"_">>)

\* compare script: normalizeBaseName
normalizeBaseName(packageName) ==
  Replace(Replace(packageName, "@", <<>>), "/", <<"-">>)

IsBlocksuiteName(name) == StartsWith(name, BlocksuitePrefix)

\* getBlocksuiteWorkspaces: the listed workspaces whose name starts with @blocksuite/
getBlocksuiteWorkspaces(list) == SelectSeq(list, IsBlocksuiteName)

\* packBlocksuite: join(resolve(REPO_ROOT, packDir), filename)
OutputPath(dirArg, name) == Join(Resolve(REPO_ROOT, dirArg), PackFilename(name))

\* mutant: the clean flag is ignored
CleanedDirKept(clean, entries) == entries

\* packBlocksuite: if (clean && pathExists) remove; mkdirp
CleanedDir(clean, entries) == IF clean THEN {} ELSE entries

\* mutant: the empty list is not checked
HasWorkspacesUnchecked(workspaces) == TRUE

\* ensureBlocksuiteLocation: if (!workspaces.length) throw
HasWorkspaces(workspaces) == Len(workspaces) # 0

\* mutant: the tag defaults to the tag the README names
TagOfReadme(o) == IF o.tag = Undef THEN ReadmeTag ELSE o.tag

\* release action: const tag = releaseOptions.tag ?? releaseOptions.version
TagOf(o) == IF o.tag = Undef THEN o.version ELSE o.tag

\* buildAndMaybeUpload: the effective exclusion list
EffectiveExcludes(o) ==
  IF Len(o.excludeWorkspaces) > 0 THEN o.excludeWorkspaces
                                  ELSE DEFAULT_EXCLUDED_WORKSPACES

\* release action: const affineRef = releaseOptions.affineRef ?? releaseOptions.ref ?? tag
\* (no option of the command sets affineRef)
AffineRefOf(o) == IF o.ref = Undef THEN TagOf(o) ELSE o.ref

\* release action: releaseOptions.repository ?? process.env["GITHUB_REPOSITORY"]
RepositoryOf(o, e) == IF o.repository = Absent THEN e.GITHUB_REPOSITORY ELSE o.repository

\* release action: releaseOptions.token ?? process.env["GITHUB_TOKEN"]
TokenOf(o, e) == IF o.token = Undef THEN e.GITHUB_TOKEN ELSE o.token

\* const [owner, repo] = repository.split("/"): the k-th part, or undefined
Part(parts, k) == IF k <= Len(parts) THEN parts[k] ELSE Absent

\* !text
Falsy(text) == text = Absent \/ text = <<>>

RefMissing == "AFFiNE git ref must be provided"
RepositoryInvalid == "Repository must be provided as owner/repo"
TokenMissing == "GITHUB_TOKEN (or --token) is required"

\* release action: the checks made before buildAndMaybeUpload is called; the
\* message of the error thrown, "" when none is
ReleaseConfigError(o, e) ==
  LET repository == RepositoryOf(o, e)
      parts == Split(repository, "/")
  IN  IF AffineRefOf(o) \in {Undef, ""} THEN RefMissing
      ELSE IF Falsy(repository) \/ ~Includes(repository, "/") THEN RepositoryInvalid
      ELSE IF TokenOf(o, e) \in {Undef, ""} THEN TokenMissing
      ELSE IF Falsy(Part(parts, 1)) \/ Falsy(Part(parts, 2)) THEN RepositoryInvalid
      ELSE ""

\* release action: the options object handed to buildAndMaybeUpload
ReleaseBuildOptions(o) == [o EXCEPT !.ref = AffineRefOf(o), !.upload = FALSE]

LocalPack == <<"l", "o", "c", "a", "l", "-", "p", "a", "c", "k">>

\* compare action: localPackDir = join(resolve(REPO_ROOT, options.packDir), "local-pack")
localPackDir(n) == Join(Resolve(REPO_ROOT, n.packDir), LocalPack)

\* buildLocalTarball: localPackPath = resolve(REPO_ROOT, localPackDir), handed to
\* the build command as --pack-dir
localPackPath(n) == Resolve(REPO_ROOT, localPackDir(n))

\* mutant: the comparator passes --upload on to the build command
CompareBuildArgsUpload(o) ==
  [o EXCEPT !.ref = IF o.ref = Undef THEN o.version ELSE o.ref,
            !.packDir = localPackPath(o), !.clean = TRUE,
            !.packages = <<o.packageName>>, !.upload = TRUE]

\* buildLocalTarball: the command line of the build command, as the build command
\* parses it: --ref, --pack-dir, --clean, --source-repo, --packages <name> and
\* --skip-install when set; --upload is not passed and keeps its default
CompareBuildArgs(o) ==
  [o EXCEPT !.ref = IF o.ref = Undef THEN o.version ELSE o.ref,
            !.packDir = localPackPath(o), !.clean = TRUE,
            !.packages = <<o.packageName>>, !.upload = FALSE]

\* the options buildAndMaybeUpload runs with
BuildOptionsOf(o) ==
  IF o.cmd = "release" THEN ReleaseBuildOptions(o)
  ELSE IF o.cmd = "compare" THEN CompareBuildArgs(o)
  ELSE o

\* mutant: any value of the marker counts
IsRunningInActionsTruthy(e) == e.GITHUB_ACTIONS # Undef

\* uploadArtifact: process.env["GITHUB_ACTIONS"] === "true"
IsRunningInActions(e) == e.GITHUB_ACTIONS = "true"

\* mutant: every lookup error falls back to creating the release
IsNotFoundAnyError(err) == TRUE

\* ensureRelease: the only error that falls back to creating the release
IsNotFound(err) == err.hasStatus /\ err.status = 404

\* mutant: every name is mapped to the id of the newest asset of the release
NameMapNewestId(as) ==
  [ n \in {a.name : a \in as} |-> (CHOOSE a \in as : \A b \in as : a.id >= b.id).id ]

\* uploadReleaseAssets: new Map(release.data.assets.map(a => [a.name, a.id]))
NameMap(as) ==
  [ n \in {a.name : a \in as} |-> (CHOOSE a \in as : a.name = n).id ]

\* mutant: the lookup in the name map never finds the asset
HasExistingNever(en, name) == FALSE

\* uploadReleaseAssets: existingNames.get(name) is truthy
HasExisting(en, name) == name \in DOMAIN en /\ en[name] # 0

----------------------------------------------------------------------------
(* The clone: ensureAffineRepo and the git commands it runs                 *)
(*                                                                         *)
(* clone.dir is "absent", "plain" (a directory that holds no repository)   *)
(* or "repo"; clone.repo is the repository at the destination; clone.outer *)
(* is the work tree that encloses the destination, if any (vendor/AFFiNE   *)
(* lies inside the checkout of this tool); clone.untracked tells whether   *)
(* the destination holds files git neither tracks nor ignores (changes to  *)
(* tracked files do not survive `checkout --force`); clone.last is the     *)
(* last call of ensureAffineRepo.                                          *)

NoCommit == [url |-> Undef, ref |-> Undef]

\* the commit `ref` names in the repository at `url`
Commit(url, ref) == [url |-> url, ref |-> ref]

EmptyRepo == [origin |-> Undef, head |-> NoCommit, fetchHead |-> NoCommit]

NoCall ==
  [ ref |-> Undef, url |-> Undef, ok |-> FALSE, was |-> "absent", outer |-> EmptyRepo ]

\* `git -C dir` without a repository at dir works on the enclosing work tree
InOuter(c) == c.dir = "plain" /\ c.outer.present

\* the repository the git commands run in the destination work on
GitRepo(c) == IF InOuter(c) THEN c.outer.repo ELSE c.repo

WithGitRepo(c, r) == IF InOuter(c) THEN [c EXCEPT !.outer.repo = r] ELSE [c EXCEPT !.repo = r]

\* exit code of `git -C dir rev-parse --is-inside-work-tree`
RevParseExit(c) == IF c.dir = "repo" \/ InOuter(c) THEN 0 ELSE 128

\* ensureAffineRepo: !(await pathExists(dir)) || repoStatus.exitCode !== 0
needsReinit(c) == c.dir = "absent" \/ RevParseExit(c) # 0

\* ensureAffineRepo: `git remote get-url origin` exits with 0
originExists(c) == GitRepo(c).origin # Undef

\* ensureAffineRepo: the commands the call runs, in order
GitPath(c) ==
  IF needsReinit(c)
    THEN (IF c.dir # "absent" THEN <<"remove">> ELSE <<>>)
           \o <<"mkdirp", "init", "remoteAdd", "fetch", "checkout">>
    ELSE <<IF originExists(c) THEN "setUrl" ELSE "remoteAdd", "fetch", "checkout">>

\* the effect of one command
GitStep(c, op, ref, url) ==
  CASE op = "remove" -> [c EXCEPT !.dir = "absent", !.repo = EmptyRepo, !.untracked = FALSE]
    [] op = "mkdirp" -> [c EXCEPT !.dir = IF c.dir = "absent" THEN "plain" ELSE c.dir]
    [] op = "init" -> [c EXCEPT !.dir = "repo", !.repo = EmptyRepo]
    [] op \in {"remoteAdd", "setUrl"} -> WithGitRepo(c, [GitRepo(c) EXCEPT !.origin = url])
    [] op = "fetch" ->
         WithGitRepo(c, [GitRepo(c) EXCEPT !.fetchHead = Commit(GitRepo(c).origin, ref)])
    [] op = "checkout" -> WithGitRepo(c, [GitRepo(c) EXCEPT !.head = GitRepo(c).fetchHead])

RECURSIVE RunGit(_, _, _, _)
RunGit(c, path, ref, url) ==
  IF path = <<>> THEN c
  ELSE RunGit(GitStep(c, Head(path), ref, url), Tail(path), ref, url)

\* ensureAffineRepo(dir, ref, sourceRepo); command number `fail` throws (0: none)
ensureAffineRepo(c, ref, url, fail) ==
  LET path == GitPath(c)
      run == IF fail = 0 THEN path ELSE SubSeq(path, 1, fail - 1)
  IN  [ RunGit(c, run, ref, url) EXCEPT
          !.last = [ ref |-> ref, url |-> url, ok |-> fail = 0, was |-> c.dir,
                     outer |-> c.outer.repo ] ]

\* assertCleanRepo: status.stdout.trim() is not empty
StatusNotEmpty(c) == c.untracked

----------------------------------------------------------------------------
(* The package.json files: a JSON value is a string, an object (its entries *)
(* in order), null, or undefined for a missing property.                    *)

JsUndefined == [kind |-> "undefined", text |-> <<>>, entries |-> <<>>]
JsNull == [kind |-> "null", text |-> <<>>, entries |-> <<>>]
JsString(t) == [kind |-> "string", text |-> t, entries |-> <<>>]
JsObject(es) == [kind |-> "object", text |-> <<>>, entries |-> es]
Entry(k, v) == [key |-> k, value |-> v]

\* typeof value === "object" && value !== null && !Array.isArray(value)
isRecord(v) == v.kind = "object"

\* obj?.key
Get(obj, k) ==
  IF isRecord(obj) /\ \E i \in 1..Len(obj.entries) : obj.entries[i].key = k
    THEN obj.entries[CHOOSE i \in 1..Len(obj.entries) : obj.entries[i].key = k].value
    ELSE JsUndefined

\* { ...obj, [k]: v }: an existing key keeps its place, a new one comes last
Put(es, k, v) ==
  IF \E i \in 1..Len(es) : es[i].key = k
    THEN [i \in 1..Len(es) |-> IF es[i].key = k THEN Entry(k, v) ELSE es[i]]
    ELSE Append(es, Entry(k, v))

\* Boolean(v)
Truthy(v) == isRecord(v) \/ (v.kind = "string" /\ v.text # <<>>)

\* a ?? b
Coalesce(a, b) == IF a.kind \in {"undefined", "null"} THEN b ELSE a

SrcPrefix == <<".", "/", "s", "r", "c", "/">>
DistPrefix == <<".", "/", "d", "i", "s", "t", "/">>
EndsWith(s, e) == Len(s) >= Len(e) /\ SubSeq(s, Len(s) - Len(e) + 1, Len(s)) = e

\* target.replace(/\.tsx?$/, "")
StripTsExt(t) ==
  IF EndsWith(t, <<".", "t", "s", "x">>) THEN SubSeq(t, 1, Len(t) - 4)
  ELSE IF EndsWith(t, <<".", "t", "s">>) THEN SubSeq(t, 1, Len(t) - 3)
  ELSE t

\* convertSrcExport(target): undefined unless the target starts with ./src/
convertSrcExport(target) ==
  IF ~StartsWith(target, SrcPrefix) THEN JsUndefined
  ELSE LET distBase == StripTsExt(DistPrefix \o SubSeq(target, Len(SrcPrefix) + 1,
                                                        Len(target)))
       IN  JsObject(<< Entry("types", JsString(distBase \o <<".", "d", ".", "t", "s">>)),
                       Entry("import", JsString(distBase \o <<".", "j", "s">>)) >>)

\* typeof v === "string" ? (convertSrcExport(v) ?? v) : v
ConvertIfString(v) ==
  IF v.kind = "string" THEN Coalesce(convertSrcExport(v.text), v) ELSE v

\* rewriteExportsField, one entry of the exports object
RewriteEntry(e) ==
  IF e.value.kind = "string" THEN Entry(e.key, ConvertIfString(e.value))
  ELSE IF isRecord(e.value)
    THEN Entry(e.key,
               JsObject([i \in 1..Len(e.value.entries) |->
                           Entry(e.value.entries[i].key,
                                 ConvertIfString(e.value.entries[i].value))]))
  ELSE e

\* rewriteExportsField: the value returned, and whether it is an object the call
\* has created (Object.fromEntries, the literal of convertSrcExport)
rewriteExportsField(exportsField) ==
  IF exportsField.kind = "string"
    THEN [ value |-> ConvertIfString(exportsField),
           isNew |-> convertSrcExport(exportsField.text) # JsUndefined ]
  ELSE IF isRecord(exportsField)
    THEN [ value |-> JsObject([i \in 1..Len(exportsField.entries) |->
                                 RewriteEntry(exportsField.entries[i])]),
           isNew |-> TRUE ]
  ELSE [ value |-> exportsField, isNew |-> FALSE ]

\* rewrittenExports === packageJson.exports: primitives by value, objects by
\* identity
StrictEquals(result, original) == result.value = original /\ ~result.isNew

PackageJson(exports, publishConfig) ==
  [exports |-> exports, publishConfig |-> publishConfig]

\* patchBlocksuitePublishConfig, one round of the loop: the package.json after
\* it, and whether writeFile was called
patchPackageJson(packageJson) ==
  LET alreadyPatched == Truthy(Get(packageJson.publishConfig, "exports"))
      rewrittenExports == rewriteExportsField(packageJson.exports)
  IN  IF alreadyPatched \/ StrictEquals(rewrittenExports, packageJson.exports)
        THEN [json |-> packageJson, written |-> FALSE]
        ELSE [ json |->
                 [ packageJson EXCEPT !.publishConfig =
                     JsObject(Put(Coalesce(packageJson.publishConfig,
                                           JsObject(<<>>)).entries,
                                  "exports", rewrittenExports.value)) ],
               written |-> TRUE ]

\* the files as the checkout leaves them, nothing read or written yet
Fresh(m) ==
  [ before |-> m, now |-> m, written |-> {}, called |-> FALSE, settled |-> FALSE,
    complete |-> FALSE ]

\* patchBlocksuitePublishConfig(affineDir), the loop over `workspaces` left by an
\* error after `upto` rounds (all rounds: no error). `before` and `written` are
\* the files before the call and the files it has written; `settled` says that a
\* call had completed before this one.
patchBlocksuitePublishConfig(m, workspaces, upto) ==
  LET reached == {workspaces[i] : i \in 1..upto} \cap DOMAIN m.now
  IN  [ before |-> m.now,
        now |-> [w \in DOMAIN m.now |->
                   IF w \in reached THEN patchPackageJson(m.now[w]).json ELSE m.now[w]],
        written |-> {w \in reached : patchPackageJson(m.now[w]).written},
        called |-> TRUE,
        settled |-> m.complete,
        complete |-> m.complete \/ upto = Len(workspaces) ]

SrcTs == SrcPrefix \o <<"i", ".", "t", "s">>
SrcTsx == SrcPrefix \o <<"i", ".", "t", "s", "x">>
SrcCss == SrcPrefix \o <<"s", ".", "c", "s", "s">>
DistJs == DistPrefix \o <<"i", ".", "j", "s">>

\* the package.json the repository holds for a workspace
CommittedPackageJson(w) ==
  CASE w = WsA -> PackageJson(JsString(SrcTs), JsUndefined)
    [] w = WsB -> PackageJson(JsObject(<<Entry(".", JsString(DistJs))>>),
                              JsObject(<<Entry("access", JsString(<<"p">>))>>))
    [] OTHER -> PackageJson(JsString(SrcTsx),
                            JsObject(<<Entry("exports", JsString(DistJs))>>))

\* the files of a work tree: none before the first checkout
WorkTree(c, list) ==
  IF c.dir = "repo" /\ c.repo.head # NoCommit
    THEN [w \in Range(getBlocksuiteWorkspaces(list)) |-> CommittedPackageJson(w)]
    ELSE <<>>

\* ensureAffineRepo: `git checkout --force` discards what a run before has
\* written; a call that fails keeps the files unless it has removed the directory
AfterCheckout(m, c, list, ok) ==
  IF ok \/ WorkTree(c, list) = <<>> THEN Fresh(WorkTree(c, list)) ELSE m

----------------------------------------------------------------------------
(* The hosting service *)

ReleaseByTag(tag) == {r \in releases : r.tag = tag}

AssetsOf(as, rid) == {a \in as : a.release = rid}

AssetNames(as, rid) == {a.name : a \in AssetsOf(as, rid)}

Ok(status) == status \in {200, 201, 204}

\* Answers of GET /releases/tags/{tag}
LookupStatuses(tag) ==
  IF ReleaseByTag(tag) # {} THEN {200, 500, 0} ELSE {404, 500, 0}

\* Answers of POST /releases
CreateStatuses(tag) ==
  IF ReleaseByTag(tag) # {} THEN {422} ELSE {201, 500, 0}

\* Answers of DELETE /releases/assets/{id}
DeleteStatuses(id) ==
  IF \E a \in assets : a.id = id THEN {204, 500, 0} ELSE {404}

\* Answers of POST {upload_url}?name=...
UploadStatuses(rid, name) ==
  IF name \in AssetNames(assets, rid) THEN {422} ELSE {201, 500, 0}

ErrorOf(status) == [hasStatus |-> status # 0, status |-> status]

\* a request: the operation, the asset name and the tag it names, the id it names
\* or is answered with, and the status of the answer
Call(op, name, id, status) ==
  [op |-> op, name |-> name, id |-> id, status |-> status, tag |-> ""]

TagCall(op, tag, id, status) == [Call(op, <<>>, id, status) EXCEPT !.tag = tag]

----------------------------------------------------------------------------
(* Initial states *)

Stale == <<"o", "l", "d", ".", "t", "g", "z">>

InitialPackDirs == { {}, {Stale, PackFilename(WsB)} }

Rel1 == [id |-> 1, tag |-> Version, draft |-> FALSE, prerelease |-> FALSE]
AssetA == [id |-> 2, name |-> PackFilename(WsA), release |-> 1]
AssetNotes == [id |-> 3, name |-> <<"n", "o", "t", "e", "s">>, release |-> 1]

InitialRemotes ==
  { [releases |-> {}, assets |-> {}] }
    \cup { [releases |-> {Rel1}, assets |-> as] : as \in {{}, {AssetA, AssetNotes}} }

ToolUrl == "https://github.com/ryusuke410/tryout-build-blocksuite.git"
ForkUrl == "https://github.com/fork/AFFiNE.git"

\* the checkout of this tool, around vendor/AFFiNE
ToolRepo ==
  [ present |-> TRUE,
    repo |-> [origin |-> ToolUrl, head |-> Commit(ToolUrl, "main"),
              fetchHead |-> NoCommit] ]

NoOuter == [present |-> FALSE, repo |-> EmptyRepo]

\* a clone of a fork, left by an earlier use of the directory
ForkRepo ==
  [origin |-> ForkUrl, head |-> Commit(ForkUrl, "old"), fetchHead |-> Commit(ForkUrl, "old")]

\* the destination before the first run: absent, or a clone with untracked files
InitialClones ==
  { [dir |-> "absent", repo |-> EmptyRepo, untracked |-> FALSE, outer |-> ToolRepo,
     last |-> NoCall],
    [dir |-> "repo", repo |-> ForkRepo, untracked |-> TRUE, outer |-> ToolRepo,
     last |-> NoCall] }

NoNaming ==
  [ scope |-> <<>>, name |-> <<>>, packDir |-> <<>>, archived |-> <<>>,
    overridden |-> <<>>, compared |-> <<>> ]

\* how the run before ended, for a run that a hosting-API request has rejected:
\* whether it had created the release, whether it had deleted an asset and not
\* yet uploaded the file of that name, whether it had uploaded a file
NoPrior == [aborted |-> FALSE, created |-> FALSE, pending |-> FALSE, uploaded |-> FALSE]

PriorOf(p, cs) ==
  IF p = "failed" /\ cs # <<>>
    THEN [ aborted |-> TRUE,
           created |-> \E j \in 1..Len(cs) :
                         cs[j].op = "createRelease" /\ Ok(cs[j].status),
           pending |-> \E j \in 1..Len(cs) :
                         /\ cs[j].op = "deleteReleaseAsset" /\ Ok(cs[j].status)
                         /\ ~\E k \in (j + 1)..Len(cs) :
                               /\ cs[k].op = "uploadReleaseAsset" /\ Ok(cs[k].status)
                               /\ cs[k].name = cs[j].name,
           uploaded |-> \E j \in 1..Len(cs) :
                          cs[j].op = "uploadReleaseAsset" /\ Ok(cs[j].status) ]
    ELSE NoPrior

\* the shared resources when a run starts, and how the run before ended
Snapshot(dir, rs, as, prior) ==
  [packDir |-> dir, releases |-> rs, assets |-> as, prior |-> prior]

Init ==
  /\ repoWorkspaces \in WorkspaceLists
  /\ packDir \in InitialPackDirs
  /\ \E r \in InitialRemotes : releases = r.releases /\ assets = r.assets
  /\ nextId = 4
  /\ opts = NoOptions
  /\ runs = 0
  /\ pc = "idle"
  /\ steps = <<>>
  /\ calls = <<>>
  /\ built = {}
  /\ targets = <<>>
  /\ files = <<>>
  /\ idx = 0
  /\ overrides = <<>>
  /\ releaseId = 0
  /\ existingNames = <<>>
  /\ start = Snapshot(packDir, releases, assets, NoPrior)
  /\ finalNames = <<>>
  /\ finalDirs = <<>>
  /\ naming = NoNaming
  /\ env = NoEnvironment
  /\ diag = ""
  /\ clone \in InitialClones
  /\ manifests = Fresh(WorkTree(clone, repoWorkspaces))

----------------------------------------------------------------------------
(* Control flow *)

\* mutant: the build is awaited before the install
StepAfterBuildFirst(step) ==
  CASE step = "checkout" -> "assertClean"
    [] step = "assertClean" -> "enumerate"
    [] step = "enumerate" -> "patch"
    [] step = "patch" -> "yarn"
    [] step = "yarn" -> "build"
    [] step = "build" -> "install"
    [] step = "install" -> "archive"
    [] step = "archive" -> "pack"
    [] step = "pack" -> "overrides"
    [] step = "overrides" -> "artifact"

\* buildAndMaybeUpload: the operation awaited after `step` has completed
StepAfter(step) ==
  CASE step = "checkout" -> "assertClean"
    [] step = "assertClean" -> "enumerate"
    [] step = "enumerate" -> "patch"
    [] step = "patch" -> "yarn"
    [] step = "yarn" -> "install"
    [] step = "install" -> "build"
    [] step = "build" -> "archive"
    [] step = "archive" -> "pack"
    [] step = "pack" -> "overrides"
    [] step = "overrides" -> "artifact"

\* mutant: the error of a step is swallowed and the next step is awaited
OutcomeIgnoreError(step, ok) == StepAfter(step)

\* a step that throws rejects the promise chain up to main().catch
Outcome(step, ok) == IF ok THEN StepAfter(step) ELSE "failed"

\* what follows buildAndMaybeUpload: the release action goes on to ensureRelease,
\* the compare action to fetchNpmTarball
AfterBuild(o) ==
  IF o.cmd = "release" THEN "lookup"
  ELSE IF o.cmd = "compare" THEN "npmPack"
  ELSE "done"

\* uploadReleaseAssets: the first file at or after i with a non-empty name
RECURSIVE NextFile(_, _)
NextFile(fs, i) ==
  IF i > Len(fs) THEN i
  ELSE IF LastSegment(fs[i]) = <<>> THEN NextFile(fs, i + 1)
  ELSE i

\* mutant: the loop is left after the first file
LoopPcFirstOnly(fs, en, i) ==
  IF i > 1 \/ i > Len(fs) THEN "done"
  ELSE IF HasExisting(en, LastSegment(fs[i])) THEN "delete"
  ELSE "upload"

\* uploadReleaseAssets: position of the loop at file i
LoopPc(fs, en, i) ==
  IF i > Len(fs) THEN "done"
  ELSE IF HasExisting(en, LastSegment(fs[i])) THEN "delete"
  ELSE "upload"

ToolFailure == "command failed"
ApiFailure == "request failed"

\* a step has completed, or has thrown the error `msg`
LogThrow(step, ok, msg) ==
  /\ steps' = Append(steps, [step |-> step, ok |-> ok])
  /\ diag' = IF ok THEN diag ELSE msg

\* a step whose only error is the one of the command it runs
Log(step, ok) == LogThrow(step, ok, ToolFailure)

\* main().catch: console.error(error); process.exitCode = 1
ProcessExitCode == IF diag = "" THEN 0 ELSE 1

\* history of the completed runs
Record(p, as, dir) ==
  /\ finalNames' = IF p = "done" /\ opts.cmd = "release"
                     THEN Append(finalNames, AssetNames(as, releaseId))
                     ELSE finalNames
  /\ finalDirs' = IF p = "done"
                    THEN Append(finalDirs, [before |-> start.packDir, after |-> dir])
                    ELSE finalDirs

\* mutant: the release action resolves the release before it builds
EntryOfPublishFirst(o) ==
  IF o.cmd = "release" THEN "lookup"
  ELSE IF o.cmd = "compare" THEN "prepare"
  ELSE "checkout"

\* where a command starts
EntryOf(o) ==
  IF o.cmd = "release" THEN "validate"
  ELSE IF o.cmd = "compare" THEN "prepare"
  ELSE "checkout"

StartRun(o, e) ==
  /\ runs < MaxRuns
  /\ runs' = runs + 1
  /\ opts' = o
  /\ env' = e
  /\ diag' = ""
  /\ pc' = EntryOf(o)
  /\ steps' = <<>>
  /\ calls' = <<>>
  /\ built' = {}
  /\ targets' = <<>>
  /\ files' = <<>>
  /\ idx' = 0
  /\ releaseId' = 0
  /\ existingNames' = <<>>
  /\ start' = Snapshot(packDir, releases, assets, PriorOf(pc, calls))
  /\ UNCHANGED << repoWorkspaces, packDir, overrides, releases, assets, nextId,
                  finalNames, finalDirs, naming, clone, manifests >>

\* the command lines of the model
CommandLines ==
  BuildOptionSet \cup ReleaseOptionSet \cup ReleaseConfigSet \cup CompareOptionSet

\* the first invocation: any command line, in any of its environments
Invoke ==
  /\ pc = "idle"
  /\ \E o \in CommandLines : \E e \in EnvironmentsOf(o) : StartRun(o, e)

\* the caller runs the same command line again, after success or failure
Reinvoke ==
  /\ pc \in {"done", "failed"}
  /\ StartRun(opts, env)

----------------------------------------------------------------------------
(* The build pipeline: buildAndMaybeUpload *)

remoteVars == << releases, assets, nextId, releaseId, existingNames, calls >>
packVars == << targets, files, idx, packDir >>
givenVars == << repoWorkspaces, opts, runs, start, naming, env >>
fixedVars == << givenVars, manifests >>

\* the commands of ensureAffineRepo that fail in the runs of the pipeline: the
\* fetch (network, unknown reference)
FetchFailures(c) == {0} \cup {i \in 1..Len(GitPath(c)) : GitPath(c)[i] = "fetch"}

DirtyTree == "AFFiNE repository has uncommitted changes"
NoWorkspaces == "Repository does not contain any @blocksuite/* workspaces"
WorkspaceNotFound == "Workspace was not found in the repo"
NoTarballs == "No BlockSuite package tarballs were produced"

\* release action, before buildAndMaybeUpload: the reference, the repository and
\* the credential are checked
ValidateRelease ==
  /\ pc = "validate"
  /\ LET error == ReleaseConfigError(opts, env)
     IN  /\ pc' = IF error = "" THEN "checkout" ELSE "failed"
         /\ diag' = error
  /\ UNCHANGED << fixedVars, packVars, remoteVars, built, overrides, steps, clone,
                  finalNames, finalDirs >>

\* ensureAffineRepo: init or retarget the clone, shallow fetch, forced checkout
EnsureAffineRepo ==
  /\ pc = "checkout"
  /\ \E fail \in FetchFailures(clone) :
       LET o == BuildOptionsOf(opts)
       IN  /\ clone' = ensureAffineRepo(clone, o.ref, o.sourceRepo, fail)
           /\ manifests' = AfterCheckout(manifests, clone', repoWorkspaces, fail = 0)
           /\ Log("checkout", fail = 0)
           /\ pc' = Outcome("checkout", fail = 0)
  /\ UNCHANGED << givenVars, packVars, remoteVars, built, overrides,
                  finalNames, finalDirs >>

\* mutant: the output of git status is not looked at
AssertCleanRepoUnchecked ==
  /\ pc = "assertClean"
  /\ Log("assertClean", TRUE)
  /\ pc' = Outcome("assertClean", TRUE)
  /\ UNCHANGED << fixedVars, packVars, remoteVars, built, overrides, clone,
                  finalNames, finalDirs >>

\* assertCleanRepo: throws when `git status --porcelain` prints anything
AssertCleanRepo ==
  /\ pc = "assertClean"
  /\ LET ok == ~StatusNotEmpty(clone)
     IN  /\ LogThrow("assertClean", ok, DirtyTree)
         /\ pc' = Outcome("assertClean", ok)
  /\ UNCHANGED << fixedVars, packVars, remoteVars, built, overrides, clone,
                  finalNames, finalDirs >>

\* ensureBlocksuiteLocation: throws when no @blocksuite/* workspace is listed
EnsureBlocksuiteLocation ==
  /\ pc = "enumerate"
  /\ \E listed \in BOOLEAN :
       LET workspaces == getBlocksuiteWorkspaces(repoWorkspaces)
           ok == listed /\ HasWorkspaces(workspaces)
       IN  /\ LogThrow("enumerate", ok, IF listed THEN NoWorkspaces ELSE ToolFailure)
           /\ pc' = Outcome("enumerate", ok)
  /\ UNCHANGED << fixedVars, packVars, remoteVars, built, overrides, clone,
                  finalNames, finalDirs >>

\* patchBlocksuitePublishConfig: the loop completes, or a read or a write throws
\* after some rounds
PatchBlocksuitePublishConfig ==
  /\ pc = "patch"
  /\ LET workspaces == getBlocksuiteWorkspaces(repoWorkspaces)
     IN  \E upto \in 0..Len(workspaces) :
           /\ manifests' = patchBlocksuitePublishConfig(manifests, workspaces, upto)
           /\ Log("patch", upto = Len(workspaces))
           /\ pc' = Outcome("patch", upto = Len(workspaces))
  /\ UNCHANGED << givenVars, packVars, remoteVars, built, overrides, clone,
                  finalNames, finalDirs >>

\* configureYarnVersion
ConfigureYarnVersion ==
  /\ pc = "yarn"
  /\ \E ok \in BOOLEAN :
       /\ Log("yarn", ok)
       /\ pc' = Outcome("yarn", ok)
  /\ UNCHANGED << fixedVars, packVars, remoteVars, built, overrides, clone,
                  finalNames, finalDirs >>

\* installDependencies: returns at once with --skip-install
InstallDependencies ==
  /\ pc = "install"
  /\ IF BuildOptionsOf(opts).skipInstall
       THEN /\ pc' = Outcome("install", TRUE)
            /\ UNCHANGED << steps, diag >>
       ELSE \E ok \in BOOLEAN :
              /\ Log("install", ok)
              /\ pc' = Outcome("install", ok)
  /\ UNCHANGED << fixedVars, packVars, remoteVars, built, overrides, clone,
                  finalNames, finalDirs >>

\* buildBlocksuite: one yarn command over @blocksuite/* minus the exclusions
BuildBlocksuite ==
  /\ pc = "build"
  /\ \E ok \in BOOLEAN :
       /\ Log("build", ok)
       /\ pc' = Outcome("build", ok)
       /\ built' = IF ok
                     THEN Range(getBlocksuiteWorkspaces(repoWorkspaces))
                            \ Range(EffectiveExcludes(BuildOptionsOf(opts)))
                     ELSE {}
  /\ UNCHANGED << fixedVars, packVars, remoteVars, overrides, clone,
                  finalNames, finalDirs >>

\* packBlocksuite, up to the loop: clean, mkdirp, list, resolve the targets
PackPrepare ==
  /\ pc = "archive"
  /\ \E listed \in BOOLEAN :
       LET packages == BuildOptionsOf(opts).packages
           workspaces == getBlocksuiteWorkspaces(repoWorkspaces)
           wanted == IF Len(packages) # 0 THEN packages ELSE workspaces
           found == \A i \in 1..Len(wanted) : wanted[i] \in Range(workspaces)
           ok == listed /\ found /\ Len(wanted) # 0
       IN  /\ LogThrow("archive", ok,
                       IF ~listed THEN ToolFailure
                       ELSE IF ~found THEN WorkspaceNotFound
                       ELSE NoTarballs)
           /\ pc' = Outcome("archive", ok)
           /\ targets' = IF ok THEN wanted ELSE <<>>
           /\ idx' = 1
  /\ packDir' = CleanedDir(BuildOptionsOf(opts).clean, packDir)
  /\ files' = <<>>
  /\ UNCHANGED << fixedVars, remoteVars, built, overrides, clone,
                  finalNames, finalDirs >>

\* packBlocksuite, one round of the loop: yarn workspace <name> pack --out <path>
PackOne ==
  /\ pc = "pack"
  /\ idx <= Len(targets)
  /\ \E ok \in BOOLEAN :
       LET filename == PackFilename(targets[idx])
           outputPath == OutputPath(BuildOptionsOf(opts).packDir, targets[idx])
       IN  /\ Log("pack", ok)
           /\ pc' = IF ok /\ idx < Len(targets) THEN "pack" ELSE Outcome("pack", ok)
           /\ packDir' = IF ok THEN packDir \cup {filename} ELSE packDir
           /\ files' = IF ok THEN Append(files, outputPath) ELSE files
           /\ idx' = idx + 1
  /\ UNCHANGED << fixedVars, remoteVars, built, overrides, targets, clone,
                  finalNames, finalDirs >>

\* generateOverrides: one entry per listed @blocksuite/* workspace
GenerateOverrides ==
  /\ pc = "overrides"
  /\ \E ok \in BOOLEAN :
       LET workspaces == getBlocksuiteWorkspaces(repoWorkspaces)
           p == IF ~ok THEN "failed"
                ELSE IF BuildOptionsOf(opts).upload THEN StepAfter("overrides")
                ELSE AfterBuild(opts)
       IN  /\ Log("overrides", ok)
           /\ pc' = p
           /\ overrides' =
                IF ok
                  THEN [ n \in Range(workspaces) |->
                           Join(Resolve(REPO_ROOT, BuildOptionsOf(opts).packDir),
                                OverrideFilename(n)) ]
                  ELSE overrides
           /\ Record(p, assets, packDir)
  /\ UNCHANGED << fixedVars, packVars, remoteVars, built, clone >>

\* uploadArtifact: a warning and nothing else outside GitHub Actions
UploadArtifact ==
  /\ pc = "artifact"
  /\ \E ok \in BOOLEAN :
       LET isRunningInActions == IsRunningInActions(env)
           p == IF isRunningInActions /\ ~ok THEN "failed" ELSE AfterBuild(opts)
       IN  /\ IF isRunningInActions THEN Log("artifact", ok)
                                    ELSE ok /\ UNCHANGED << steps, diag >>
           /\ pc' = p
           /\ Record(p, assets, packDir)
  /\ UNCHANGED << fixedVars, packVars, remoteVars, built, overrides, clone >>

----------------------------------------------------------------------------
(* The release action: ensureRelease, uploadReleaseAssets *)

localVars == << fixedVars, packVars, built, overrides, steps, clone >>

\* a request that is answered with an error rejects the run
Reject(p) == diag' = IF p = "failed" THEN ApiFailure ELSE diag

\* ensureRelease, first half: octokit.repos.getReleaseByTag
ReleaseLookup ==
  /\ pc = "lookup"
  /\ \E status \in LookupStatuses(TagOf(opts)) :
       LET tag == TagOf(opts)
           found == IF Ok(status) THEN (CHOOSE r \in ReleaseByTag(tag) : TRUE).id ELSE 0
           p == IF Ok(status) THEN "fetch"
                ELSE IF IsNotFound(ErrorOf(status)) THEN "create"
                ELSE "failed"
       IN  /\ calls' = Append(calls, TagCall("getReleaseByTag", tag, found, status))
           /\ releaseId' = found
           /\ pc' = p
           /\ Reject(p)
  /\ UNCHANGED << localVars, releases, assets, nextId, existingNames,
                  finalNames, finalDirs >>

\* ensureRelease, second half: octokit.repos.createRelease, draft and prerelease false
ReleaseCreate ==
  /\ pc = "create"
  /\ \E status \in CreateStatuses(TagOf(opts)) :
       LET created == [id |-> nextId, tag |-> TagOf(opts),
                       draft |-> FALSE, prerelease |-> FALSE]
       IN  /\ calls' = Append(calls,
                         TagCall("createRelease", created.tag,
                                 IF Ok(status) THEN nextId ELSE 0, status))
           /\ Reject(IF Ok(status) THEN "fetch" ELSE "failed")
           /\ releases' = IF Ok(status) THEN releases \cup {created} ELSE releases
           /\ nextId' = IF Ok(status) THEN nextId + 1 ELSE nextId
           /\ releaseId' = IF Ok(status) THEN created.id ELSE 0
           /\ pc' = IF Ok(status) THEN "fetch" ELSE "failed"
  /\ UNCHANGED << localVars, assets, existingNames, finalNames, finalDirs >>

\* uploadReleaseAssets, before the loop: octokit.repos.getRelease and the name map
FetchAssets ==
  /\ pc = "fetch"
  /\ \E status \in {200, 500, 0} :
       LET en == IF Ok(status) THEN NameMap(AssetsOf(assets, releaseId)) ELSE <<>>
           first == NextFile(files, 1)
           p == IF Ok(status) THEN LoopPc(files, en, first) ELSE "failed"
       IN  /\ calls' = Append(calls, Call("getRelease", <<>>, releaseId, status))
           /\ existingNames' = en
           /\ idx' = first
           /\ pc' = p
           /\ Reject(p)
           /\ Record(p, assets, packDir)
  /\ UNCHANGED << fixedVars, targets, files, packDir, built, overrides, steps,
                  clone, releases, assets, nextId, releaseId >>

\* mutant: the old asset is deleted and the file is not uploaded again
DeleteAssetOnly ==
  /\ pc = "delete"
  /\ LET name == LastSegment(files[idx])
         existingId == existingNames[name]
     IN  \E status \in DeleteStatuses(existingId) :
           LET as == IF Ok(status) THEN {a \in assets : a.id # existingId} ELSE assets
               next == NextFile(files, idx + 1)
               p == IF Ok(status) THEN LoopPc(files, existingNames, next) ELSE "failed"
           IN  /\ calls' = Append(calls,
                             Call("deleteReleaseAsset", name, existingId, status))
               /\ assets' = as
               /\ idx' = IF Ok(status) THEN next ELSE idx
               /\ pc' = p
               /\ Reject(p)
               /\ Record(p, as, packDir)
  /\ UNCHANGED << fixedVars, targets, files, packDir, built, overrides, steps,
                  clone, releases, nextId, releaseId, existingNames >>

\* mutant: a failed deletion is swallowed and the upload goes ahead
DeleteAssetIgnoreError ==
  /\ pc = "delete"
  /\ LET name == LastSegment(files[idx])
         existingId == existingNames[name]
     IN  \E status \in DeleteStatuses(existingId) :
           /\ calls' = Append(calls, Call("deleteReleaseAsset", name, existingId, status))
           /\ assets' = IF Ok(status) THEN {a \in assets : a.id # existingId} ELSE assets
           /\ pc' = "upload"
  /\ UNCHANGED << localVars, releases, nextId, releaseId, existingNames,
                  finalNames, finalDirs, diag >>

\* uploadReleaseAssets, in the loop: octokit.repos.deleteReleaseAsset
DeleteAsset ==
  /\ pc = "delete"
  /\ LET name == LastSegment(files[idx])
         existingId == existingNames[name]
     IN  \E status \in DeleteStatuses(existingId) :
           /\ calls' = Append(calls, Call("deleteReleaseAsset", name, existingId, status))
           /\ assets' = IF Ok(status) THEN {a \in assets : a.id # existingId} ELSE assets
           /\ pc' = IF Ok(status) THEN "upload" ELSE "failed"
           /\ Reject(IF Ok(status) THEN "upload" ELSE "failed")
  /\ UNCHANGED << localVars, releases, nextId, releaseId, existingNames,
                  finalNames, finalDirs >>

\* uploadReleaseAssets, in the loop: octokit.repos.uploadReleaseAsset
UploadAsset ==
  /\ pc = "upload"
  /\ LET name == LastSegment(files[idx])
     IN  \E status \in UploadStatuses(releaseId, name) :
           LET uploaded == [id |-> nextId, name |-> name, release |-> releaseId]
               as == IF Ok(status) THEN assets \cup {uploaded} ELSE assets
               next == NextFile(files, idx + 1)
               p == IF Ok(status) THEN LoopPc(files, existingNames, next) ELSE "failed"
           IN  /\ calls' = Append(calls,
                             Call("uploadReleaseAsset", name,
                                  IF Ok(status) THEN nextId ELSE 0, status))
               /\ assets' = as
               /\ nextId' = IF Ok(status) THEN nextId + 1 ELSE nextId
               /\ idx' = IF Ok(status) THEN next ELSE idx
               /\ pc' = p
               /\ Reject(p)
               /\ Record(p, as, packDir)
  /\ UNCHANGED << fixedVars, targets, files, packDir, built, overrides, steps,
                  clone, releases, releaseId, existingNames >>

----------------------------------------------------------------------------
(* The compare action of the compare script: the build command is run as a  *)
(* child process; an error of the child rejects the compare action.         *)

Mismatch == "Local build does not match npm publication"

\* buildLocalTarball: the path it returns, join(localPackPath, `${baseName}.tgz`)
localTarball(o) ==
  Join(localPackPath(o), normalizeBaseName(o.packageName) \o TgzExt)

compareVars ==
  << fixedVars, targets, files, idx, remoteVars, built, overrides, steps, clone >>

\* compare action: remove(baseDir), mkdirp(baseDir); local-pack lies in baseDir.
\* The build command is started after that: its run starts with that directory.
ComparePrepare ==
  /\ pc = "prepare"
  /\ \E ok \in BOOLEAN :
       /\ pc' = IF ok THEN "checkout" ELSE "failed"
       /\ diag' = IF ok THEN diag ELSE ToolFailure
       /\ packDir' = IF ok THEN {} ELSE packDir
       /\ start' = [start EXCEPT !.packDir = IF ok THEN {} ELSE packDir]
  /\ UNCHANGED << repoWorkspaces, opts, runs, naming, env, manifests, targets,
                  files, idx, remoteVars, built, overrides, steps, clone, finalNames, finalDirs >>

\* fetchNpmTarball: npm pack <name>@<version> --pack-destination <npm-pack>
FetchNpmTarball ==
  /\ pc = "npmPack"
  /\ \E ok \in BOOLEAN :
       /\ pc' = IF ok THEN "extractLocal" ELSE "failed"
       /\ diag' = IF ok THEN diag ELSE ToolFailure
  /\ UNCHANGED << compareVars, packDir, finalNames, finalDirs >>

\* extractTarball(localTarball, localExtractDir): tar fails without the archive
ExtractLocal ==
  /\ pc = "extractLocal"
  /\ \E extracted \in BOOLEAN :
       LET ok == extracted /\ localTarball(opts) \in Range(files)
       IN  /\ pc' = IF ok THEN "extractNpm" ELSE "failed"
           /\ diag' = IF ok THEN diag ELSE ToolFailure
  /\ UNCHANGED << compareVars, packDir, finalNames, finalDirs >>

\* extractTarball(npmTarball, npmExtractDir)
ExtractNpm ==
  /\ pc = "extractNpm"
  /\ \E ok \in BOOLEAN :
       /\ pc' = IF ok THEN "diff" ELSE "failed"
       /\ diag' = IF ok THEN diag ELSE ToolFailure
  /\ UNCHANGED << compareVars, packDir, finalNames, finalDirs >>

\* compareTarballs: diff -ruN, any exit code other than 0 is a mismatch
CompareTarballs ==
  /\ pc = "diff"
  /\ \E exitCode \in {0, 1} :
       LET p == IF exitCode = 0 THEN "done" ELSE "failed"
       IN  /\ pc' = p
           /\ diag' = IF exitCode = 0 THEN diag ELSE Mismatch
           /\ Record(p, assets, packDir)
  /\ UNCHANGED << compareVars, packDir >>

----------------------------------------------------------------------------

Next ==
  \/ Invoke
  \/ Reinvoke
  \/ ValidateRelease
  \/ ComparePrepare
  \/ FetchNpmTarball
  \/ ExtractLocal
  \/ ExtractNpm
  \/ CompareTarballs
  \/ EnsureAffineRepo
  \/ AssertCleanRepo
  \/ EnsureBlocksuiteLocation
  \/ PatchBlocksuitePublishConfig
  \/ ConfigureYarnVersion
  \/ InstallDependencies
  \/ BuildBlocksuite
  \/ PackPrepare
  \/ PackOne
  \/ GenerateOverrides
  \/ UploadArtifact
  \/ ReleaseLookup
  \/ ReleaseCreate
  \/ FetchAssets
  \/ DeleteAsset
  \/ UploadAsset

Spec == Init /\ [][Next]_vars

----------------------------------------------------------------------------
(* File-name derivation: the compare script builds one package through the  *)
(* build command and then opens the archive at the path it derives itself.  *)

NameChars == {"a", "-", "."}

NameParts == UNION { [1..n -> NameChars] : n \in 1..MaxPartLen }

\* --pack-dir of the compare script: relative to the repository, or absolute
ComparePackDirs == { CompareDirArg, <<"/", "t">> }

PackageName(n) == <<"@">> \o n.scope \o <<"/">> \o n.name

\* buildLocalTarball: return join(localPackPath, `${baseName}.tgz`)
buildLocalTarball(n) ==
  Join(localPackPath(n), normalizeBaseName(PackageName(n)) \o TgzExt)

InitNames ==
  /\ naming \in
       [ scope : NameParts, name : NameParts, packDir : ComparePackDirs,
         archived : {<<>>}, overridden : {<<>>}, compared : {<<>>} ]
  /\ repoWorkspaces = <<WsAffine>>
  /\ packDir = {}
  /\ releases = {}
  /\ assets = {}
  /\ nextId = 4
  /\ opts = NoOptions
  /\ runs = 0
  /\ pc = "idle"
  /\ steps = <<>>
  /\ calls = <<>>
  /\ built = {}
  /\ targets = <<>>
  /\ files = <<>>
  /\ idx = 0
  /\ overrides = <<>>
  /\ releaseId = 0
  /\ existingNames = <<>>
  /\ start = Snapshot({}, {}, {}, NoPrior)
  /\ finalNames = <<>>
  /\ finalDirs = <<>>
  /\ env = NoEnvironment
  /\ diag = ""
  /\ clone \in {c \in InitialClones : c.dir = "absent"}
  /\ manifests = Fresh(<<>>)

pipelineVars ==
  << repoWorkspaces, opts, runs, pc, steps, calls, built, targets, files, idx,
     packDir, overrides, releases, assets, nextId, releaseId, existingNames,
     start, finalNames, finalDirs, env, diag, clone, manifests >>

\* packBlocksuite, run by the compare script with --pack-dir and --packages
ArchiverPath ==
  /\ naming.archived = <<>>
  /\ naming' = [naming EXCEPT !.archived = OutputPath(localPackPath(naming),
                                                      PackageName(naming))]
  /\ UNCHANGED pipelineVars

\* generateOverrides: the file name of the entry
OverridesPath ==
  /\ naming.overridden = <<>>
  /\ naming' = [naming EXCEPT !.overridden = OverrideFilename(PackageName(naming))]
  /\ UNCHANGED pipelineVars

\* buildLocalTarball: the path handed to extractTarball
ComparatorPath ==
  /\ naming.compared = <<>>
  /\ naming' = [naming EXCEPT !.compared = buildLocalTarball(naming)]
  /\ UNCHANGED pipelineVars

NextNames ==
  \/ ArchiverPath
  \/ OverridesPath
  \/ ComparatorPath

SpecNames == InitNames /\ [][NextNames]_vars

----------------------------------------------------------------------------
(* The clone on its own: ensureAffineRepo is called again and again on one  *)
(* destination, with any source URL and reference, from any prior state of  *)
(* the destination, and any of its commands may fail.                       *)

Refs == {"main", "dev"}

Urls == {DEFAULT_SOURCE_REPO, ForkUrl}

\* absent; a directory without a repository; a repository without a remote;
\* a clone of another URL; each with and without an enclosing work tree
PriorClones ==
  { [dir |-> d.dir, repo |-> d.repo, untracked |-> d.untracked, outer |-> o,
     last |-> NoCall] :
      d \in { [dir |-> "absent", repo |-> EmptyRepo, untracked |-> FALSE],
              [dir |-> "plain", repo |-> EmptyRepo, untracked |-> TRUE],
              [dir |-> "repo", repo |-> EmptyRepo, untracked |-> FALSE],
              [dir |-> "repo", repo |-> ForkRepo, untracked |-> TRUE] },
      o \in {NoOuter, ToolRepo} }

InitCheckout ==
  /\ clone \in PriorClones
  /\ naming = NoNaming
  /\ repoWorkspaces = <<WsAffine>>
  /\ packDir = {}
  /\ releases = {}
  /\ assets = {}
  /\ nextId = 4
  /\ opts = NoOptions
  /\ runs = 0
  /\ pc = "idle"
  /\ steps = <<>>
  /\ calls = <<>>
  /\ built = {}
  /\ targets = <<>>
  /\ files = <<>>
  /\ idx = 0
  /\ overrides = <<>>
  /\ releaseId = 0
  /\ existingNames = <<>>
  /\ start = Snapshot({}, {}, {}, NoPrior)
  /\ finalNames = <<>>
  /\ finalDirs = <<>>
  /\ env = NoEnvironment
  /\ diag = ""
  /\ manifests = Fresh(WorkTree(clone, repoWorkspaces))

\* one call of ensureAffineRepo(dir, ref, sourceRepo)
EnsureAffineRepoAny ==
  /\ \E ref \in Refs, url \in Urls, fail \in 0..Len(GitPath(clone)) :
       /\ clone' = ensureAffineRepo(clone, ref, url, fail)
       /\ manifests' = AfterCheckout(manifests, clone', repoWorkspaces, fail = 0)
  /\ UNCHANGED << repoWorkspaces, opts, runs, pc, steps, calls, built, targets,
                  files, idx, packDir, overrides, releases, assets, nextId,
                  releaseId, existingNames, start, finalNames, finalDirs, naming,
                  env, diag >>

NextCheckout == EnsureAffineRepoAny

SpecCheckout == InitCheckout /\ [][NextCheckout]_vars

----------------------------------------------------------------------------
(* The patch step alone: patchBlocksuitePublishConfig called any number of  *)
(* times on a checkout of two workspaces, over every package.json below.    *)

ExportsValues ==
  { JsUndefined, JsNull, JsString(SrcTs), JsString(DistJs),
    JsObject(<<Entry(".", JsString(DistJs))>>),
    JsObject(<<Entry(".", JsString(SrcTsx)), Entry("./s", JsString(SrcCss))>>),
    JsObject(<<Entry(".", JsObject(<<Entry("import", JsString(SrcTs)),
                                     Entry("default", JsNull)>>))>>) }

PublishConfigs ==
  { JsUndefined,
    JsObject(<<Entry("access", JsString(<<"p">>))>>),
    JsObject(<<Entry("exports", JsString(DistJs))>>),
    JsObject(<<Entry("exports", JsString(<<>>)), Entry("access", JsString(<<"p">>))>>) }

InitPatch ==
  /\ repoWorkspaces = <<WsA, WsB, WsAffine>>
  /\ manifests \in
       { Fresh(m) : m \in [ {WsA, WsB} ->
           {PackageJson(e, c) : e \in ExportsValues, c \in PublishConfigs} ] }
  /\ clone = [ dir |-> "repo",
               repo |-> [origin |-> DEFAULT_SOURCE_REPO,
                         head |-> Commit(DEFAULT_SOURCE_REPO, "main"),
                         fetchHead |-> Commit(DEFAULT_SOURCE_REPO, "main")],
               untracked |-> FALSE, outer |-> NoOuter, last |-> NoCall ]
  /\ naming = NoNaming
  /\ packDir = {}
  /\ releases = {}
  /\ assets = {}
  /\ nextId = 4
  /\ opts = NoOptions
  /\ runs = 0
  /\ pc = "idle"
  /\ steps = <<>>
  /\ calls = <<>>
  /\ built = {}
  /\ targets = <<>>
  /\ files = <<>>
  /\ idx = 0
  /\ overrides = <<>>
  /\ releaseId = 0
  /\ existingNames = <<>>
  /\ start = Snapshot({}, {}, {}, NoPrior)
  /\ finalNames = <<>>
  /\ finalDirs = <<>>
  /\ env = NoEnvironment
  /\ diag = ""

\* one call of patchBlocksuitePublishConfig(affineDir)
PatchAny ==
  /\ LET workspaces == getBlocksuiteWorkspaces(repoWorkspaces)
     IN  \E upto \in 0..Len(workspaces) :
           manifests' = patchBlocksuitePublishConfig(manifests, workspaces, upto)
  /\ UNCHANGED << repoWorkspaces, opts, runs, pc, steps, calls, built, targets,
                  files, idx, packDir, overrides, releases, assets, nextId,
                  releaseId, existingNames, start, finalNames, finalDirs, naming,
                  env, diag, clone >>

NextPatch == PatchAny

SpecPatch == InitPatch /\ [][NextPatch]_vars

----------------------------------------------------------------------------
(* Properties *)

IsDelete(c) == c.op = "deleteReleaseAsset"
IsUpload(c) == c.op = "uploadReleaseAsset"
IsLookup(c) == c.op = "getReleaseByTag"
IsCreate(c) == c.op = "createRelease"

StepNames == {steps[i].step : i \in 1..Len(steps)}

ReleaseDone == pc = "done" /\ opts.cmd = "release"

\* the assets the release of this run held when the run started
OldAssets == AssetsOf(start.assets, releaseId)

NoTwoAssetsWithOneName(as) == \A a, b \in as : a.name = b.name => a = b

\* C1: whenever the upload of a file is requested, every asset the release held
\* under that file's name before the run has been deleted by an earlier,
\* successful request and is gone; and after uploadReleaseAssets has completed
\* no two assets of the release have the same name.
C1_ReplaceNotAppend ==
  /\ \A j \in 1..Len(calls) :
       IsUpload(calls[j]) =>
         \A old \in OldAssets :
           old.name = calls[j].name =>
             /\ old \notin assets
             /\ \E k \in 1..(j - 1) :
                  IsDelete(calls[k]) /\ calls[k].id = old.id /\ Ok(calls[k].status)
  /\ ReleaseDone => NoTwoAssetsWithOneName(AssetsOf(assets, releaseId))

\* a release run that replaced an old asset has completed
C1_Witness ==
  /\ ReleaseDone
  /\ \E j \in 1..Len(calls) : IsDelete(calls[j]) /\ Ok(calls[j].status)
  /\ \E old \in OldAssets : old \notin assets /\ old.name \in AssetNames(assets, releaseId)

\* C2: after every completed release run the release holds exactly one asset per
\* archived package and no two assets of one name, and the asset-name set is the
\* same after the first, the second, ... completed run of the same command line.
C2_ReleaseIdempotent ==
  /\ \A k \in 1..Len(finalNames) : finalNames[k] = finalNames[1]
  /\ ReleaseDone =>
       /\ \A t \in Range(targets) :
            Cardinality({a \in AssetsOf(assets, releaseId) : a.name = PackFilename(t)}) = 1
       /\ NoTwoAssetsWithOneName(AssetsOf(assets, releaseId))
       /\ finalNames[Len(finalNames)] = AssetNames(assets, releaseId)

\* the release command has completed MaxRuns times in a row against the same release
C2_Witness ==
  /\ ReleaseDone
  /\ Len(finalNames) = MaxRuns
  /\ Len(targets) >= 2

\* C3: an old asset is deleted at most once, and exactly once before the upload of
\* the file of its name is requested; a deletion is followed by the upload of the
\* same name and by nothing else; uploads follow the order of the files, and a
\* request is followed by another one only if it succeeded.
C3_DeleteOnceThenUpload ==
  /\ \A j \in 1..Len(calls) :
       /\ IsDelete(calls[j]) =>
            /\ \E old \in OldAssets : old.id = calls[j].id /\ old.name = calls[j].name
            /\ j < Len(calls) =>
                 /\ Ok(calls[j].status)
                 /\ IsUpload(calls[j + 1])
                 /\ calls[j + 1].name = calls[j].name
            /\ j = Len(calls) /\ Ok(calls[j].status) => pc = "upload"
       /\ IsUpload(calls[j]) =>
            /\ j < Len(calls) => Ok(calls[j].status)
            /\ \A old \in OldAssets :
                 old.name = calls[j].name =>
                   \E k \in 1..(j - 1) :
                     IsDelete(calls[k]) /\ calls[k].id = old.id /\ Ok(calls[k].status)
  /\ \A old \in OldAssets :
       Cardinality({k \in 1..Len(calls) :
                      IsDelete(calls[k]) /\ calls[k].id = old.id /\ Ok(calls[k].status)}) <= 1
  /\ LET ups == SelectSeq(calls, IsUpload)
     IN  \A m \in 1..Len(ups) : m <= Len(files) /\ ups[m].name = LastSegment(files[m])

\* a rerun over two files has deleted an old asset and then uploaded its successor
C3_Witness ==
  /\ ReleaseDone
  /\ Len(files) >= 2
  /\ \E j \in 1..(Len(calls) - 1) :
       IsDelete(calls[j]) /\ Ok(calls[j].status) /\ Ok(calls[j + 1].status)

\* C4: createRelease is requested exactly after a lookup answered 404, for the tag
\* of the lookup, and creates a release that is neither a draft nor a prerelease;
\* a lookup that succeeds creates nothing; a lookup that fails otherwise ends the
\* run with no release created and no asset deleted or uploaded.
C4_CreateOnlyOnNotFound ==
  /\ \A j \in 1..Len(calls) :
       /\ IsCreate(calls[j]) =>
            j > 1 /\ IsLookup(calls[j - 1]) /\ calls[j - 1].status = 404
       /\ IsLookup(calls[j]) =>
            /\ calls[j].status = 404 =>
                 IF j = Len(calls) THEN pc = "create" ELSE IsCreate(calls[j + 1])
            /\ Ok(calls[j].status) =>
                 /\ \A k \in 1..Len(calls) : ~IsCreate(calls[k])
                 /\ releases = start.releases
            /\ ~Ok(calls[j].status) /\ calls[j].status # 404 =>
                 /\ pc = "failed"
                 /\ j = Len(calls)
                 /\ releases = start.releases
                 /\ assets = start.assets
  /\ \A r \in releases \ start.releases :
       /\ r.tag = TagOf(opts)
       /\ ~r.draft
       /\ ~r.prerelease
       /\ \E j \in 1..Len(calls) :
            IsCreate(calls[j]) /\ Ok(calls[j].status) /\ calls[j].id = r.id

\* the release was absent, has been created and the run has completed
C4_Witness ==
  /\ ReleaseDone
  /\ \E j \in 1..Len(calls) : IsCreate(calls[j]) /\ Ok(calls[j].status)
  /\ releases # start.releases

MissingPackage ==
  \E i \in 1..Len(opts.packages) :
    opts.packages[i] \notin Range(getBlocksuiteWorkspaces(repoWorkspaces))

\* C5: when --packages names a workspace that is not listed, the build command
\* is never invoked in that run.
C5_MissingPackageFailsBeforeBuild ==
  MissingPackage => "build" \notin StepNames

\* C6: when no listed workspace is named @blocksuite/*, the run fails at the
\* layout check: no install, build or pack is attempted, no hosting-API request is
\* made, and the output directory and the releases are as they were.
C6_NoWorkspacesNoWork ==
  getBlocksuiteWorkspaces(repoWorkspaces) = <<>> =>
    /\ StepNames \subseteq {"checkout", "assertClean", "enumerate"}
    /\ \A i \in 1..Len(steps) : steps[i].step = "enumerate" => ~steps[i].ok /\ pc = "failed"
    /\ pc \notin {"patch", "yarn", "install", "build", "archive", "pack", "done"}
    /\ calls = <<>>
    /\ packDir = start.packDir
    /\ releases = start.releases
    /\ assets = start.assets

\* the layout check has failed in a checkout without @blocksuite/* workspaces
C6_Witness ==
  /\ getBlocksuiteWorkspaces(repoWorkspaces) = <<>>
  /\ pc = "failed"
  /\ "enumerate" \in StepNames
  /\ start.packDir # {}

\* C7: no path occurs twice in the Archive Result: two targets that map to the
\* same file name make the Archiver fail instead.
C7_CollisionIsHardError ==
  \A i, j \in 1..Len(files) : i # j => files[i] # files[j]

StepOrder ==
  << "checkout", "assertClean", "enumerate", "patch", "yarn", "install", "build",
     "archive", "pack", "overrides", "artifact" >>

Rank(step) == CHOOSE r \in 1..Len(StepOrder) : StepOrder[r] = step

\* C10: the operations of a run occur in the order checkout, clean check,
\* enumeration, install, build, archive, publish; an operation starts only when
\* every earlier one has completed successfully (the install is left out with
\* --skip-install), and after a failed operation nothing else is started.
C10_FixedStepOrder ==
  /\ \A i, j \in 1..Len(steps) :
       i < j =>
         \/ Rank(steps[i].step) < Rank(steps[j].step)
         \/ steps[i].step = "pack" /\ steps[j].step = "pack"
  /\ \A i \in 1..Len(steps) :
       /\ i < Len(steps) => steps[i].ok
       /\ ~steps[i].ok => pc = "failed" /\ calls = <<>>
       /\ \A r \in 1..(Rank(steps[i].step) - 1) :
            \/ StepOrder[r] \in {steps[k].step : k \in 1..(i - 1)}
            \/ StepOrder[r] = "install" /\ opts.skipInstall
  /\ calls # <<>> =>
       /\ opts.cmd = "release"
       /\ {"checkout", "assertClean", "enumerate", "build", "archive", "pack", "overrides"}
            \subseteq StepNames
       /\ \A i \in 1..Len(steps) : steps[i].ok
  /\ pc = "done" => \A i \in 1..Len(steps) : steps[i].ok

\* a release run has gone through every operation, the install included
C10_Witness ==
  /\ ReleaseDone
  /\ ~opts.skipInstall
  /\ {"install", "build", "pack"} \subseteq StepNames
  /\ \E j \in 1..Len(calls) : IsUpload(calls[j])

\* the output directory of the package under test, spelled out
ExpectedDir(n) ==
  (IF n.packDir[1] = "/" THEN n.packDir ELSE REPO_ROOT \o <<"/">> \o n.packDir)
    \o <<"/">> \o LocalPack

\* scope-name.tgz, spelled out
ExpectedFile(n) == n.scope \o <<"-">> \o n.name \o TgzExt

\* C8: for a package @scope/name the Archiver writes <output directory>/scope-name.tgz,
\* the override entry names scope-name.tgz, and the path the Comparator opens is
\* the path the Archiver wrote.
C8_SameArchiveName ==
  /\ naming.archived # <<>> =>
       naming.archived = ExpectedDir(naming) \o <<"/">> \o ExpectedFile(naming)
  /\ naming.overridden # <<>> => naming.overridden = ExpectedFile(naming)
  /\ naming.compared # <<>> =>
       naming.compared = ExpectedDir(naming) \o <<"/">> \o ExpectedFile(naming)
  /\ naming.archived # <<>> /\ naming.compared # <<>> =>
       naming.compared = naming.archived

\* the three derivations have run for a package with a two-character scope
C8_Witness ==
  /\ naming.archived # <<>>
  /\ naming.overridden # <<>>
  /\ naming.compared # <<>>
  /\ Len(naming.scope) = 2
  /\ ~IsAbsolute(naming.packDir)

StepOk(step) == \E i \in 1..Len(steps) : steps[i].step = step /\ steps[i].ok

\* C11: the clean check succeeds exactly on a tree without local modifications;
\* on a dirty tree it fails with the dirty-tree error and leaves the tree as it
\* is, and the run ends there: no enumeration, install, build or pack, no file
\* written, no hosting-API request.
C11_DirtyTreeStops ==
  /\ \A i \in 1..Len(steps) :
       steps[i].step = "assertClean" =>
         /\ steps[i].ok <=> ~StatusNotEmpty(clone)
         /\ ~steps[i].ok =>
              /\ pc = "failed"
              /\ diag = DirtyTree
              /\ i = Len(steps)
  /\ StatusNotEmpty(clone) =>
       /\ StepNames \subseteq {"checkout", "assertClean"}
       /\ pc \in {"idle", "validate", "prepare", "checkout", "assertClean", "failed"}
       /\ built = {}
       /\ calls = <<>>
       /\ packDir = start.packDir

\* the check has stopped a second run on the same dirty tree
C11_Witness ==
  /\ pc = "failed"
  /\ diag = DirtyTree
  /\ StatusNotEmpty(clone)
  /\ StepOk("checkout")
  /\ runs = 2

ArchivedTimes(w) ==
  Cardinality({i \in 1..Len(files) : files[i] = OutputPath(opts.packDir, w)})

\* C12: after a completed build command without --packages, a workspace of the
\* exclusion list has been neither built nor archived, and every other
\* @blocksuite/* workspace has been archived exactly once.
C12_ExcludedNotArchived ==
  pc = "done" /\ opts.cmd = "build" /\ opts.packages = <<>> =>
    LET matching == Range(getBlocksuiteWorkspaces(repoWorkspaces))
        excluded == Range(EffectiveExcludes(opts))
    IN  /\ \A w \in matching \cap excluded :
             /\ w \notin built
             /\ ArchivedTimes(w) = 0
             /\ PackFilename(w) \notin packDir \ start.packDir
        /\ \A w \in matching \ excluded :
             /\ ArchivedTimes(w) = 1
             /\ PackFilename(w) \in packDir

\* C13: once the override mapping is written it has an entry for exactly the
\* workspaces the run has archived, and each entry names the archive the run
\* has produced for that workspace.
C13_OverridesMatchArchives ==
  StepOk("overrides") =>
    /\ DOMAIN overrides = Range(targets)
    /\ \A n \in DOMAIN overrides :
         /\ overrides[n] = OutputPath(BuildOptionsOf(opts).packDir, n)
         /\ overrides[n] \in Range(files)

\* C14: the artifact upload is called exactly in the runs of the build command
\* with --upload and GITHUB_ACTIONS = "true"; with --upload and any other value
\* of the marker the run completes without an error and without the call; a run
\* that calls it makes no hosting-API request, and the release command never
\* calls it.
C14_ArtifactOnlyInActions ==
  /\ "artifact" \in StepNames \/ pc = "artifact" => opts.cmd = "build" /\ opts.upload
  /\ "artifact" \in StepNames => env.GITHUB_ACTIONS = "true" /\ calls = <<>>
  /\ calls # <<>> => opts.cmd = "release" /\ "artifact" \notin StepNames
  /\ opts.cmd = "build" /\ opts.upload /\ StepOk("overrides") /\ pc # "artifact" =>
       IF env.GITHUB_ACTIONS = "true"
         THEN "artifact" \in StepNames
         ELSE "artifact" \notin StepNames /\ pc = "done" /\ diag = ""

\* the build command has uploaded the artifact inside GitHub Actions
C14_Witness ==
  /\ pc = "done"
  /\ opts.cmd = "build"
  /\ opts.upload
  /\ env.GITHUB_ACTIONS = "true"
  /\ StepOk("artifact")

\* C15: a run of the comparator runs the build pipeline at most once, for the
\* one package named and into a cleaned directory, and exactly once before it
\* goes on to the registry; it never calls the artifact upload and never makes
\* a hosting-API request, whether it succeeds or fails.
C15_ComparatorBuildsOnePackage ==
  opts.cmd = "compare" =>
    /\ Cardinality({i \in 1..Len(steps) : steps[i].step = "checkout"}) <= 1
    /\ "artifact" \notin StepNames
    /\ pc \notin {"artifact", "validate", "lookup", "create", "fetch", "delete", "upload"}
    /\ calls = <<>>
    /\ releases = start.releases
    /\ assets = start.assets
    /\ StepOk("archive") => targets = <<opts.packageName>>
    /\ pc = "pack" /\ idx = 1 => packDir = {}
    /\ Range(files) \subseteq {localTarball(opts)}
    /\ pc \in {"npmPack", "extractLocal", "extractNpm", "diff", "done"} =>
         /\ StepOk("checkout")
         /\ StepOk("build")
         /\ files = <<localTarball(opts)>>
         /\ packDir = {PackFilename(opts.packageName)}

\* a comparison has succeeded inside GitHub Actions
C15_Witness ==
  /\ opts.cmd = "compare"
  /\ pc = "done"
  /\ env.GITHUB_ACTIONS = "true"
  /\ files # <<>>

\* owner/repo: two parts, none of them empty
IsOwnerRepo(repository) ==
  /\ repository # Absent
  /\ Len(SelectSeq(repository, LAMBDA c : c = "/")) = 1
  /\ repository[1] # "/"
  /\ repository[Len(repository)] # "/"

\* C16: a release command without a credential, without a repository or with a
\* repository that is not of the form owner/repo fails on the check of its
\* configuration: no checkout, no later step and no hosting-API request is made.
C16_ConfigCheckedFirst ==
  /\ opts.cmd = "release"
  /\ pc # "validate"
  /\ \/ TokenOf(opts, env) \in {Undef, ""}
     \/ ~IsOwnerRepo(RepositoryOf(opts, env))
  => /\ pc = "failed"
     /\ diag \in {RepositoryInvalid, TokenMissing}
     /\ steps = <<>>
     /\ calls = <<>>
     /\ clone.last = NoCall

C18_ReadmeTag ==
  opts.cmd = "release" /\ opts.tag = Undef /\ opts.ref = Undef =>
    /\ \A j \in 1..Len(calls) :
         IsLookup(calls[j]) \/ IsCreate(calls[j]) => calls[j].tag = ReadmeTag
    /\ releaseId # 0 => \E r \in releases : r.id = releaseId /\ r.tag = ReadmeTag
    /\ "checkout" \in StepNames => clone.last.ref = ReadmeTag

\* C19: after a call of ensureAffineRepo that has succeeded, the destination is a
\* repository whose origin is the URL asked for and whose checked-out commit is
\* the one fetched for the reference asked for; a destination that was absent
\* or held no repository is a fresh repository with nothing left of what it held,
\* and no other repository has been changed.
C19_CloneMatchesRequest ==
  clone.last.ok =>
    LET fetched == Commit(clone.last.url, clone.last.ref)
    IN  /\ clone.dir = "repo"
        /\ clone.repo.origin = clone.last.url
        /\ clone.repo.head = fetched
        /\ clone.last.was # "repo" =>
             /\ clone.repo = [origin |-> clone.last.url, head |-> fetched,
                              fetchHead |-> fetched]
             /\ ~clone.untracked
        /\ clone.outer.repo = clone.last.outer

\* C20: a release run that completes after a run that a hosting-API request has
\* rejected (after the creation of the release, after a deletion and before the
\* upload, between two files) leaves exactly one asset per archive file name,
\* and one release of the tag.
C20_RerunRecovers ==
  ReleaseDone /\ start.prior.aborted =>
    /\ \A i \in 1..Len(files) :
         Cardinality({a \in AssetsOf(assets, releaseId) :
                        a.name = LastSegment(files[i])}) = 1
    /\ Cardinality(ReleaseByTag(TagOf(opts))) = 1
    /\ \A t \in Range(targets) : PackFilename(t) \in AssetNames(assets, releaseId)

\* the run before had deleted an asset and not uploaded its successor, and the
\* rerun over two files has completed
C20_Witness ==
  /\ ReleaseDone
  /\ start.prior.aborted
  /\ start.prior.pending
  /\ start.prior.uploaded
  /\ Len(files) >= 2

\* a request of the run that was answered with an error the script does not handle
RejectedCall(c) ==
  /\ ~Ok(c.status)
  /\ ~(IsLookup(c) /\ IsNotFound(ErrorOf(c.status)))

\* a step or a request of the run has thrown
Thrown ==
  \/ \E i \in 1..Len(steps) : ~steps[i].ok
  \/ \E j \in 1..Len(calls) : RejectedCall(calls[j])

\* the steps of the run other than the artifact upload: each one asked for has
\* completed, in the build pipeline, in the release and in the comparison
RequestedStepsDone ==
  LET o == BuildOptionsOf(opts)
  IN  /\ ~Thrown
      /\ \A s \in {"checkout", "assertClean", "enumerate", "patch", "yarn", "build",
                    "archive", "overrides"} : StepOk(s)
      /\ ~o.skipInstall => StepOk("install")
      /\ Len(targets) > 0
      /\ Len(files) = Len(targets)
      /\ Cardinality({i \in 1..Len(steps) : steps[i].step = "pack"}) = Len(targets)
      /\ \A i \in 1..Len(targets) :
           /\ files[i] = OutputPath(o.packDir, targets[i])
           /\ PackFilename(targets[i]) \in packDir
      /\ DOMAIN overrides # {}
      /\ opts.cmd = "release" =>
           /\ releaseId # 0
           /\ \A i \in 1..Len(files) :
                \E j \in 1..Len(calls) :
                  /\ IsUpload(calls[j])
                  /\ Ok(calls[j].status)
                  /\ calls[j].name = LastSegment(files[i])
      /\ opts.cmd = "compare" => files = <<localTarball(opts)>>

\* a run that has thrown has ended, with exit code 1, on the step or request
\* that has thrown
FailureExitsNonZero ==
  /\ pc = "failed" => ProcessExitCode = 1
  /\ pc = "done" => ProcessExitCode = 0
  /\ \A i \in 1..Len(steps) : ~steps[i].ok => pc = "failed" /\ i = Len(steps)
  /\ \A j \in 1..Len(calls) :
       RejectedCall(calls[j]) => pc = "failed" /\ j = Len(calls)

\* C21: a run that has thrown at any stage ends with exit code 1, and a run
\* that ends with exit code 0 has completed every step it was asked for, the
\* artifact upload of a build with --upload included.
C21_ExitZeroMeansAllDone ==
  /\ FailureExitsNonZero
  /\ pc = "done" =>
       /\ RequestedStepsDone
       /\ BuildOptionsOf(opts).upload => StepOk("artifact")

\* C21, amended: a run that has thrown at any stage ends with exit code 1, and
\* a run that ends with exit code 0 has completed every step it was asked for,
\* but for the artifact upload of a build with --upload where GITHUB_ACTIONS is
\* not "true": that run ends with exit code 0 without the upload being called.
C21_ExitZeroButForUploadOutsideActions ==
  /\ FailureExitsNonZero
  /\ pc = "done" =>
       /\ RequestedStepsDone
       /\ BuildOptionsOf(opts).upload =>
            IF env.GITHUB_ACTIONS = "true"
              THEN StepOk("artifact")
              ELSE "artifact" \notin StepNames

\* a release run has ended with exit code 1 on the upload of its second file,
\* after a deletion the service has accepted
C21_Witness ==
  /\ pc = "failed"
  /\ ProcessExitCode = 1
  /\ opts.cmd = "release"
  /\ idx = 2
  /\ calls # <<>>
  /\ IsUpload(calls[Len(calls)])
  /\ RejectedCall(calls[Len(calls)])
  /\ \E j \in 1..Len(calls) : IsDelete(calls[j]) /\ Ok(calls[j].status)

IsGetRelease(c) == c.op = "getRelease"

\* C22: the asset list of the release is fetched after the release is resolved
\* and before the first deletion or upload, and whenever the upload of a file
\* is about to be requested the release holds no asset of that file's name,
\* also for a file list that names one file twice.
C22_NoUploadOntoTakenName ==
  /\ \A j \in 1..Len(calls) :
       /\ IsDelete(calls[j]) \/ IsUpload(calls[j]) =>
            \E k \in 1..(j - 1) : IsGetRelease(calls[k]) /\ Ok(calls[k].status)
       /\ IsGetRelease(calls[j]) =>
            \E k \in 1..(j - 1) :
              /\ IsLookup(calls[k]) \/ IsCreate(calls[k])
              /\ Ok(calls[k].status)
       /\ IsUpload(calls[j]) => calls[j].status # 422
  /\ pc = "upload" => LastSegment(files[idx]) \notin AssetNames(assets, releaseId)

\* C23: in a release run a hosting-API request is made only after checkout,
\* clean check, enumeration, install (unless skipped), build and the packing of
\* every target have completed; a run in which one of these steps has thrown
\* has made no request and has left the releases and the assets as they were.
C23_NoRequestBeforeArchives ==
  opts.cmd = "release" =>
    /\ calls # <<>> \/ pc \in {"lookup", "create", "fetch", "delete", "upload"} =>
         /\ \A i \in 1..Len(steps) : steps[i].ok
         /\ \A s \in {"checkout", "assertClean", "enumerate", "build", "archive"} :
              StepOk(s)
         /\ ~opts.skipInstall => StepOk("install")
         /\ Len(targets) > 0
         /\ Len(files) = Len(targets)
         /\ Cardinality({i \in 1..Len(steps) : steps[i].step = "pack"}) = Len(targets)
    /\ calls = <<>> =>
         /\ releases = start.releases
         /\ assets = start.assets
         /\ releaseId = 0
    /\ (\E i \in 1..Len(steps) : ~steps[i].ok) => calls = <<>>

\* a release run has failed while packing its second target, and the release
\* still holds the assets it held
C23_Witness ==
  /\ opts.cmd = "release"
  /\ pc = "failed"
  /\ StepOk("build")
  /\ StepOk("pack")
  /\ steps[Len(steps)] = [step |-> "pack", ok |-> FALSE]
  /\ calls = <<>>
  /\ start.assets # {}
  /\ assets = start.assets

\* the file names of the archives handed to uploadReleaseAssets
FileNames == {LastSegment(files[i]) : i \in 1..Len(files)}

\* C24: in a release run, every asset that existed when the run started and
\* that belongs to another release, or whose name is the name of none of the
\* archive files, is still there with its identifier, at every point of the run
\* and after it has ended or failed; every deletion requested names an archive
\* file and the asset the release held under that name.
C24_OtherAssetsKept ==
  opts.cmd = "release" =>
    /\ \A a \in start.assets :
         a.release # releaseId \/ a.name \notin FileNames => a \in assets
    /\ \A j \in 1..Len(calls) :
         IsDelete(calls[j]) =>
           /\ calls[j].name \in FileNames
           /\ Ok(calls[j].status) =>
                \E a \in OldAssets : a.id = calls[j].id /\ a.name = calls[j].name

\* a release run has replaced the asset of an archive's name, and the other
\* asset of the release is still there
C24_Witness ==
  /\ ReleaseDone
  /\ start.assets = {AssetA, AssetNotes}
  /\ releaseId = AssetNotes.release
  /\ AssetNotes \in assets
  /\ AssetA \notin assets
  /\ AssetNotes.name \notin FileNames
  /\ \E j \in 1..Len(calls) : IsDelete(calls[j]) /\ Ok(calls[j].status)

\* an exports field with a target that starts with ./src/
RECURSIVE HasSrcTarget(_)
HasSrcTarget(v) ==
  IF v.kind = "string" THEN StartsWith(v.text, SrcPrefix)
  ELSE IF v.kind = "object"
    THEN \E i \in 1..Len(v.entries) : HasSrcTarget(v.entries[i].value)
  ELSE FALSE

\* C25: a call of the patch step leaves the package.json of a workspace as it
\* was, without a write, when it has a publishConfig.exports already or when
\* its exports field has no target that starts with ./src/; a file is written
\* only for a workspace with such a target, and what is written differs only
\* in publishConfig.exports; a call after a call that has completed changes
\* nothing.
C25_PatchOnlySrcExports ==
  manifests.called =>
    \A w \in DOMAIN manifests.now :
      LET before == manifests.before[w]
          after == manifests.now[w]
      IN  /\ Truthy(Get(before.publishConfig, "exports"))
               \/ ~HasSrcTarget(before.exports) =>
                 /\ after = before
                 /\ w \notin manifests.written
          /\ w \in manifests.written =>
               /\ HasSrcTarget(before.exports)
               /\ after.exports = before.exports
               /\ Truthy(Get(after.publishConfig, "exports"))
          /\ w \notin manifests.written => after = before
          /\ manifests.settled => after = before /\ w \notin manifests.written

====
